---- MODULE Spec2Model ----
(***************************************************************************)
(* Model of the quiz backend (app/main.py, app/models.py): the session     *)
(* store, the question pool, the clock, and the two request handlers       *)
(* get_quiz_questions (GET /questions) and submit_answers (POST /answers)  *)
(* with the functions they call.  A handler is cut at its await points:    *)
(* the code between two awaits runs without interleaving (asyncio), so     *)
(* each such segment is one action.                                        *)
(***************************************************************************)
EXTENDS Integers, Sequences, FiniteSets, TLC

VARIABLES
    now,        \* the clock read by int(time.time())
    ticks,      \* how many times the clock has advanced (bounds the run)
    pool,       \* content of the QuizProblems table (questionId -> raw item)
    sessions,   \* content of the session table (sessionId -> stored item)
    nextSid,    \* the next fresh value of uuid.uuid4()
    pc,         \* per request slot: the await the handler is suspended at
    req,        \* per request slot: the raw request
    loc,        \* per request slot: the handler's local variables
    resp,       \* per request slot: the response sent to the client
    puts,       \* per request slot: number of put_item calls made
    created,    \* history: sessionId -> the arguments of the store_session_data
                \* call that wrote it
    answers_in, \* grader harness: user_answers handed to validate_answers
    session_in, \* grader harness: session_data handed to validate_answers
    graded,     \* grader harness: what validate_answers returned
    _aws_dynamodb_client,     \* global handle, None until initialised
    _aws_quiz_problems_table, \* global handle, None until initialised
    _aws_session_data_table,  \* global handle, None until initialised
    _client_init_lock,        \* the task holding the asyncio.Lock, or None
    call,       \* per getter call: the getter, the await it is at, its result
    init_runs   \* history: how often the initialisation body was entered

(* the global handles, their lock and the getter calls in flight *)
aws == <<_aws_dynamodb_client, _aws_quiz_problems_table, _aws_session_data_table,
         _client_init_lock, call, init_runs>>

vars == <<now, ticks, pool, sessions, nextSid, pc, req, loc, resp, puts, created,
          answers_in, session_in, graded, aws>>

-----------------------------------------------------------------------------
(* Bounds of the model *)

MaxTicks == 3
MaxSess == 1
MaxAnswers == 2

(* Python's None.  Every optional string field holds a string or None. *)
None == "None"

SESSION_TTL_SECONDS == 2 * 60 * 60

(* The clock advances by one second or by one second less than the TTL, so  *)
(* that expiry - 1, expiry and expiry + 1 are all reached within MaxTicks.  *)
TickSteps == {1, SESSION_TTL_SECONDS - 1}

Reqs == {"r1"}

-----------------------------------------------------------------------------
(* Values *)

Opt(i, t) == [id |-> i, text |-> t]

Range(s) == {s[i] : i \in DOMAIN s}

(* Raw items of the QuizProblems table.  Each pool is one possible content  *)
(* of the table; the handlers only read it.                                 *)
Problem(q, src, cat, opts, correct, expl) ==
    [questionId |-> q, bookSource |-> src, category |-> cat,
     question |-> "text of " \o q, options |-> opts, correctAnswer |-> correct,
     explanation |-> [explanation |-> expl]]

(* Q1 and Q3 are listed under readable_code, Q2 under                       *)
(* programming_principles; Q2 has a single option and no category; Q3 lacks *)
(* correctAnswer and explanation, so it fails ProblemData validation.       *)
PoolA ==
    [q \in {"Q1", "Q2", "Q3"} |->
        CASE q = "Q1" -> Problem("Q1", "readable_code", "naming",
                                 <<Opt("A", "a1"), Opt("B", "b1")>>, "A", "why Q1")
          [] q = "Q2" -> Problem("Q2", "programming_principles", None,
                                 <<Opt("B", "b2")>>, "B", "why Q2")
          [] q = "Q3" -> [questionId |-> "Q3", bookSource |-> "readable_code",
                          question |-> "text of Q3", options |-> <<>>]]

(* a table without questions *)
EmptyPool == <<>>

Pools == {PoolA, EmptyPool}

(* Session ids: 1..MaxSess are the values uuid4 hands out; the ids below 1  *)
(* name records the table holds from outside this process; MaxSess + 1 is   *)
(* an id that was never written.                                            *)
NoTtlSid == -1
CorruptSid == 0
UnknownSid == MaxSess + 1
SessIds == NoTtlSid .. UnknownSid

(* The session table is external and persistent: at start it may hold items *)
(* that do not have the SessionData shape.                                  *)
InitialSessions ==
    [s \in {NoTtlSid, CorruptSid} |->
        IF s = NoTtlSid
        THEN [sessionId |-> s, problem_data |-> <<>>]
        ELSE [sessionId |-> s, ttl |-> SESSION_TTL_SECONDS]]

-----------------------------------------------------------------------------
(* Responses *)

ServiceError(status_code, detail) ==
    [kind |-> "error", status_code |-> status_code, detail |-> detail]

Unprocessable == [kind |-> "error", status_code |-> 422, detail |-> "validation error"]

Ok(body) == [kind |-> "ok", status_code |-> 200, body |-> body]

NoResp == [kind |-> "none"]

NoLoc == [kind |-> "none"]

NoReq == [kind |-> "none"]

-----------------------------------------------------------------------------
(* app/models.py: the pydantic models, as validation predicates and         *)
(* conversions.  A model keeps its declared fields and drops every other    *)
(* key of the input (pydantic's default for extra keys).                    *)

IsStr(v) == v # None

HasFields(item, fields) == fields \subseteq DOMAIN item

OptionValid(o) == HasFields(o, {"id", "text"}) /\ IsStr(o.id) /\ IsStr(o.text)

OptionModel(o) == [id |-> o.id, text |-> o.text]

OptionsModel(opts) == [i \in 1..Len(opts) |-> OptionModel(opts[i])]

OptField(item, f) == IF f \in DOMAIN item THEN item[f] ELSE None

(* Answer: questionId: str, answer: str (not Optional) *)
AnswerValid(a) ==
    /\ HasFields(a, {"questionId", "answer"})
    /\ IsStr(a.questionId)
    /\ IsStr(a.answer)

(* AnswerRequest: sessionId: str, answers: List[Answer] *)
AnswerRequestValid(body) ==
    /\ HasFields(body, {"sessionId", "answers"})
    /\ \A i \in 1..Len(body.answers) : AnswerValid(body.answers[i])

(* ProblemData: category is the only optional field *)
ProblemDataValid(item) ==
    /\ HasFields(item, {"questionId", "bookSource", "question", "options",
                        "correctAnswer", "explanation"})
    /\ \A i \in 1..Len(item.options) : OptionValid(item.options[i])
    /\ HasFields(item.explanation, {"explanation"})

ProblemDataModel(item) ==
    [questionId |-> item.questionId, bookSource |-> item.bookSource,
     category |-> OptField(item, "category"), question |-> item.question,
     options |-> OptionsModel(item.options), correctAnswer |-> item.correctAnswer,
     explanation |-> [explanation |-> item.explanation.explanation]]

(* SessionDataItem: category and explanation are optional *)
SessionDataItemValid(item) ==
    /\ HasFields(item, {"questionId", "correctAnswer", "question", "options"})
    /\ \A i \in 1..Len(item.options) : OptionValid(item.options[i])

SessionDataItemModel(item) ==
    [questionId |-> item.questionId, correctAnswer |-> item.correctAnswer,
     category |-> OptField(item, "category"), question |-> item.question,
     options |-> OptionsModel(item.options),
     explanation |-> OptField(item, "explanation")]

(* SessionData: problem_data: Dict[str, SessionDataItem], ttl: int *)
SessionDataValid(item) ==
    /\ HasFields(item, {"problem_data", "ttl"})
    /\ \A q \in DOMAIN item.problem_data : SessionDataItemValid(item.problem_data[q])

SessionDataModel(item) ==
    [problem_data |-> [q \in DOMAIN item.problem_data |->
                          SessionDataItemModel(item.problem_data[q])],
     ttl |-> item.ttl]

(* Result: userAnswer: str is required, so a None answer fails validation *)
ResultValid(r) == IsStr(r.userAnswer)

-----------------------------------------------------------------------------
(* Outcomes of a function call: a returned value, or a raised exception *)

Return(v) == [kind |-> "return", value |-> v]

ReturnNone == [kind |-> "returnNone"]

Raise(e) == [kind |-> "raise", error |-> e]

ValidationError == [kind |-> "error", status_code |-> 0, detail |-> "pydantic ValidationError"]

-----------------------------------------------------------------------------
(* main.py: get_session_data *)

TtlExpiredAtExpiry(item, current_time) ==
    "ttl" \in DOMAIN item /\ item.ttl <= current_time

TtlExpiredLate(item, current_time) ==
    "ttl" \in DOMAIN item /\ item.ttl + 1 < current_time

(* line 469: the expiry test *)
TtlExpired(item, current_time) ==
    "ttl" \in DOMAIN item /\ item.ttl < current_time

get_session_data_gone(outcome, table, session_id, current_time) ==
    IF outcome = "ClientError"
    THEN Raise(ServiceError(500, "Failed to retrieve session data."))
    ELSE IF outcome = "Exception"
    THEN Raise(ServiceError(500, "Failed to process session data."))
    ELSE IF session_id \notin DOMAIN table
    THEN ReturnNone
    ELSE LET item == table[session_id] IN
         IF TtlExpired(item, current_time)
         THEN Raise(ServiceError(410, "Session expired."))
         ELSE IF SessionDataValid(item)
              THEN Return(SessionDataModel(item))
              ELSE Raise(ServiceError(500, "Failed to process session data."))

get_session_data_lenient(outcome, table, session_id, current_time) ==
    IF outcome = "ClientError"
    THEN Raise(ServiceError(500, "Failed to retrieve session data."))
    ELSE IF outcome = "Exception"
    THEN Raise(ServiceError(500, "Failed to process session data."))
    ELSE IF session_id \notin DOMAIN table
    THEN ReturnNone
    ELSE LET item == table[session_id] IN
         IF TtlExpired(item, current_time)
         THEN ReturnNone
         ELSE IF SessionDataValid(item)
              THEN Return(SessionDataModel(item))
              ELSE ReturnNone

(* get_item answered from `table` (outcome "ok"), or raised a ClientError *)
(* or another exception (a connection error is not a ClientError)         *)
get_session_data(outcome, table, session_id, current_time) ==
    IF outcome = "ClientError"
    THEN Raise(ServiceError(500, "Failed to retrieve session data."))
    ELSE IF outcome = "Exception"
    THEN Raise(ServiceError(500, "Failed to process session data."))
    ELSE IF session_id \notin DOMAIN table
    THEN ReturnNone
    ELSE LET item == table[session_id] IN
         IF TtlExpired(item, current_time)
         THEN ReturnNone
         ELSE IF SessionDataValid(item)
              THEN Return(SessionDataModel(item))
              ELSE Raise(ServiceError(500, "Failed to process session data."))

-----------------------------------------------------------------------------
(* main.py: validate_answers *)

IsCorrectAnyOption(user_ans, correct_info) ==
    IF user_ans.answer # None
    THEN user_ans.answer \in {correct_info.options[i].id : i \in 1..Len(correct_info.options)}
    ELSE FALSE

(* lines 508-510 *)
IsCorrect(user_ans, correct_info) ==
    IF user_ans.answer # None
    THEN user_ans.answer = correct_info.correctAnswer
    ELSE FALSE

(* lines 512-521: the Result built for one answer *)
ResultOf(user_ans, correct_info) ==
    [questionId |-> user_ans.questionId,
     category |-> correct_info.category,
     isCorrect |-> IsCorrect(user_ans, correct_info),
     userAnswer |-> user_ans.answer,
     correctAnswer |-> correct_info.correctAnswer,
     question |-> correct_info.question,
     options |-> correct_info.options,
     explanation |-> correct_info.explanation]

SkippedOrNotAnOption(user_ans, correct_data_map) ==
    \/ user_ans.questionId \notin DOMAIN correct_data_map
    \/ LET options == correct_data_map[user_ans.questionId].options IN
       user_ans.answer \notin {options[i].id : i \in 1..Len(options)}

(* line 502: the answer is skipped when its question is not in the session *)
Skipped(user_ans, correct_data_map) ==
    user_ans.questionId \notin DOMAIN correct_data_map

RECURSIVE GradeFromDedup(_, _, _, _)
GradeFromDedup(user_answers, correct_data_map, i, results) ==
    IF i > Len(user_answers)
    THEN Return(results)
    ELSE LET user_ans == user_answers[i] IN
         IF \/ Skipped(user_ans, correct_data_map)
            \/ \E k \in 1..Len(results) : results[k].questionId = user_ans.questionId
         THEN GradeFromDedup(user_answers, correct_data_map, i + 1, results)
         ELSE LET r == ResultOf(user_ans, correct_data_map[user_ans.questionId]) IN
              IF ResultValid(r)
              THEN GradeFromDedup(user_answers, correct_data_map, i + 1, Append(results, r))
              ELSE Raise(ValidationError)

RECURSIVE GradeFrom(_, _, _, _)
(* the loop of lines 500-522, from answer i on, with `results` so far *)
GradeFrom(user_answers, correct_data_map, i, results) ==
    IF i > Len(user_answers)
    THEN Return(results)
    ELSE LET user_ans == user_answers[i] IN
         IF Skipped(user_ans, correct_data_map)
         THEN GradeFrom(user_answers, correct_data_map, i + 1, results)
         ELSE LET r == ResultOf(user_ans, correct_data_map[user_ans.questionId]) IN
              IF ResultValid(r)
              THEN GradeFrom(user_answers, correct_data_map, i + 1, Append(results, r))
              ELSE Raise(ValidationError)

validate_answers(user_answers, session_data) ==
    GradeFrom(user_answers, session_data.problem_data, 1, <<>>)

-----------------------------------------------------------------------------
(* main.py: submit_answers, from the answer of get_item to the response *)

submit_answers_unguarded(outcome, table, body, current_time) ==
    LET got == get_session_data(outcome, table, body.sessionId, current_time) IN
    IF got.kind = "raise" /\ outcome = "ok"
    THEN got.error
    ELSE IF got.kind # "return"
    THEN Ok([results |-> <<>>])
    ELSE LET res == validate_answers(body.answers, got.value) IN
         IF res.kind = "raise"
         THEN ServiceError(500, "An unexpected error occurred while processing your answers.")
         ELSE Ok([results |-> res.value])

submit_answers(outcome, table, body, current_time) ==
    LET got == get_session_data(outcome, table, body.sessionId, current_time) IN
    IF got.kind = "raise"
    THEN got.error
    ELSE IF got.kind = "returnNone"
    THEN ServiceError(404, "Session not found or expired.")
    ELSE LET res == validate_answers(body.answers, got.value) IN
         IF res.kind = "raise"
         THEN ServiceError(500, "An unexpected error occurred while processing your answers.")
         ELSE Ok([results |-> res.value])

-----------------------------------------------------------------------------
(* The question store, as seen through the table's query and batch_get_item *)

(* The order in which the index bookSource-questionId-index lists ids *)
IndexOrder == <<"Q1", "Q2", "Q3">>

Listed(table, src, q) == q \in DOMAIN table /\ table[q].bookSource = src

(* query(IndexName=..., KeyConditionExpression=bookSource = src): all ids   *)
(* of the source, or only the first page with a LastEvaluatedKey           *)
QueryItems(table, src) ==
    LET ids == SelectSeq(IndexOrder, LAMBDA q : Listed(table, src, q)) IN
    [i \in 1..Len(ids) |-> [questionId |-> ids[i]]]

(* The index is maintained apart from the records and is eventually         *)
(* consistent: after the bookSource of a record has been changed, the index *)
(* may still list its id under the former tag.  Q2 is such a record.        *)
StaleEntries(table) ==
    {e \in {[bookSource |-> "readable_code", questionId |-> "Q2"]} :
        e.questionId \in DOMAIN table}

StaleItems(table, src) ==
    LET ids == SelectSeq(IndexOrder,
                         LAMBDA q : \/ Listed(table, src, q)
                                    \/ [bookSource |-> src, questionId |-> q]
                                           \in StaleEntries(table)) IN
    [i \in 1..Len(ids) |-> [questionId |-> ids[i]]]

QueryResponses(table, src) ==
    LET items == QueryItems(table, src) IN
    {[kind |-> "response", Items |-> items, LastEvaluatedKey |-> FALSE],
     [kind |-> "response", Items |-> StaleItems(table, src), LastEvaluatedKey |-> FALSE]}
    \cup {[kind |-> "response", Items |-> SubSeq(items, 1, n), LastEvaluatedKey |-> TRUE] :
             n \in 1..(Len(items) - 1)}

QueryException == [kind |-> "exception"]

(* batch_get_item: the items of the keys that exist and were processed, in  *)
(* the order of the keys                                                    *)
BatchItems(table, keys, unprocessed) ==
    LET got == SelectSeq(keys, LAMBDA q : q \in DOMAIN table /\ q \notin unprocessed) IN
    [i \in 1..Len(got) |-> table[got[i]]]

(* batch_get_item rejects a request that names the same key twice with a    *)
(* ValidationException, which aioboto3 raises as ClientError                *)
HasDuplicates(keys) == \E i, j \in DOMAIN keys : i # j /\ keys[i] = keys[j]

(* UnprocessedKeys of the response: batch_get_item completes only if it    *)
(* has processed at least one key, and raises otherwise                     *)
UnprocessedKeys(keys) == (SUBSET Range(keys)) \ {Range(keys)}

BatchOutcomes(keys) ==
    IF HasDuplicates(keys) THEN {"ClientError"} ELSE {"ok", "ClientError", "Exception"}

-----------------------------------------------------------------------------
(* main.py: get_questions_from_dynamodb *)

(* lines 226-230 *)
TargetBookSources(book_source) ==
    IF book_source = "both"
    THEN <<"readable_code", "programming_principles">>
    ELSE <<book_source>>

RECURSIVE Concat(_)
Concat(seqs) == IF seqs = <<>> THEN <<>> ELSE Head(seqs) \o Concat(Tail(seqs))

(* lines 266-271: the ids of every query result, in order *)
AllQuestionIds(query_results) ==
    Concat([i \in 1..Len(query_results) |->
               [j \in 1..Len(query_results[i].Items) |->
                   query_results[i].Items[j].questionId]])

Min(a, b) == IF a < b THEN a ELSE b

NumToFetchAll(count, all_ids) == Len(all_ids)

(* line 297 *)
NumToFetch(count, all_ids) == Min(count, Len(all_ids))

(* line 307: random.sample(population, k): k elements at distinct positions *)
RandomSample(population, k) ==
    {[i \in 1..k |-> population[p[i]]] :
        p \in {f \in [1..k -> 1..Len(population)] :
                  \A i, j \in 1..k : i # j => f[i] # f[j]}}

SelectIdsPartialJoin(book_source, count, query_results) ==
    LET returned == SelectSeq(query_results, LAMBDA res : res.kind = "response")
        all_ids == AllQuestionIds(returned)
    IN IF all_ids = <<>>
       THEN {Raise(ServiceError(404, "No questions found for source: " \o book_source))}
       ELSE {Return([num_to_fetch |-> NumToFetch(count, all_ids), selected_ids |-> ids]) :
                ids \in RandomSample(all_ids, NumToFetch(count, all_ids))}

SelectIdsEmptyIsInternal(book_source, count, query_results) ==
    IF \E i \in 1..Len(query_results) : query_results[i].kind = "exception"
    THEN {Raise(ServiceError(500, "Unexpected error fetching question IDs."))}
    ELSE LET all_ids == AllQuestionIds(query_results) IN
         IF all_ids = <<>>
         THEN {Raise(ServiceError(500, "Unexpected error fetching question IDs."))}
         ELSE {Return([num_to_fetch |-> NumToFetch(count, all_ids), selected_ids |-> ids]) :
                  ids \in RandomSample(all_ids, NumToFetch(count, all_ids))}

(* lines 255-307: from the gathered query results to the selected ids;     *)
(* the ServiceError of line 261 is raised inside the try and caught by the *)
(* except Exception of line 283                                            *)
SelectIds(book_source, count, query_results) ==
    IF \E i \in 1..Len(query_results) : query_results[i].kind = "exception"
    THEN {Raise(ServiceError(500, "Unexpected error fetching question IDs."))}
    ELSE LET all_ids == AllQuestionIds(query_results) IN
         IF all_ids = <<>>
         THEN {Raise(ServiceError(404, "No questions found for source: " \o book_source))}
         ELSE {Return([num_to_fetch |-> NumToFetch(count, all_ids), selected_ids |-> ids]) :
                  ids \in RandomSample(all_ids, NumToFetch(count, all_ids))}

ParseProblemsAllOrNothing(raw_problems_from_db) ==
    IF \A i \in 1..Len(raw_problems_from_db) : ProblemDataValid(raw_problems_from_db[i])
    THEN [i \in 1..Len(raw_problems_from_db) |-> ProblemDataModel(raw_problems_from_db[i])]
    ELSE <<>>

(* lines 357-367: the items that validate, in order *)
ParseProblems(raw_problems_from_db) ==
    LET valid == SelectSeq(raw_problems_from_db, ProblemDataValid) IN
    [i \in 1..Len(valid) |-> ProblemDataModel(valid[i])]

(* lines 333-386: from the answer of batch_get_item to the returned problems *)
LoadProblems(outcome, raw_problems_from_db, num_to_fetch) ==
    IF outcome = "ClientError"
    THEN Raise(ServiceError(500, "Error fetching problem details from database."))
    ELSE IF outcome = "Exception"
    THEN Raise(ServiceError(500, "Unexpected error fetching problem details."))
    ELSE LET problems == ParseProblems(raw_problems_from_db) IN
         IF problems = <<>> /\ num_to_fetch > 0
         THEN Raise(ServiceError(500, "Failed to load or validate any question data after fetching."))
         ELSE Return(problems)

-----------------------------------------------------------------------------
(* main.py: shuffle_options *)

ShuffledOptionsWithRepeats(options) ==
    IF options = <<>>
    THEN {options}
    ELSE {[i \in 1..Len(options) |-> options[p[i]]] :
             p \in [1..Len(options) -> 1..Len(options)]}

(* random.shuffle(q.options): every permutation; an empty list is skipped *)
ShuffledOptions(options) ==
    IF options = <<>>
    THEN {options}
    ELSE {[i \in 1..Len(options) |-> options[p[i]]] :
             p \in Permutations(1..Len(options))}

RECURSIVE shuffle_options(_)
shuffle_options(questions) ==
    IF questions = <<>>
    THEN {<<>>}
    ELSE {<<[Head(questions) EXCEPT !.options = o]>> \o rest :
             o \in ShuffledOptions(Head(questions).options),
             rest \in shuffle_options(Tail(questions))}

-----------------------------------------------------------------------------
(* main.py: store_session_data *)

TtlTimestampOneHour(current_time) == current_time + 60 * 60

(* line 408 *)
TtlTimestamp(current_time) == current_time + SESSION_TTL_SECONDS

(* lines 412-423 *)
SessionDataItemOfReversed(problem) ==
    [questionId |-> problem.questionId,
     correctAnswer |-> problem.correctAnswer,
     category |-> problem.category,
     question |-> problem.question,
     options |-> [i \in 1..Len(problem.options) |->
                     OptionModel(problem.options[Len(problem.options) + 1 - i])],
     explanation |-> problem.explanation.explanation]

SessionDataItemOf(problem) ==
    [questionId |-> problem.questionId,
     correctAnswer |-> problem.correctAnswer,
     category |-> problem.category,
     question |-> problem.question,
     options |-> OptionsModel(problem.options),
     explanation |-> problem.explanation.explanation]

ProblemDataMapFirstOnly(problems) ==
    [q \in {problems[1].questionId} |-> SessionDataItemOf(problems[1])]

(* lines 410-423: a dict, so a later problem with the same id replaces an  *)
(* earlier one                                                             *)
ProblemDataMap(problems) ==
    [q \in {problems[i].questionId : i \in 1..Len(problems)} |->
        LET last == CHOOSE i \in 1..Len(problems) :
                        /\ problems[i].questionId = q
                        /\ \A j \in 1..Len(problems) : problems[j].questionId = q => j <= i
        IN SessionDataItemOf(problems[last])]

(* lines 424-427: model_dump(mode="json") of the SessionData plus sessionId *)
ItemToStoreWithoutTtl(session_id, problems, current_time) ==
    [problem_data |-> ProblemDataMap(problems),
     sessionId |-> session_id]

ItemToStore(session_id, problems, current_time) ==
    [problem_data |-> ProblemDataMap(problems),
     ttl |-> TtlTimestamp(current_time),
     sessionId |-> session_id]

PutItemShared(table, item) ==
    [s \in DOMAIN table \cup {item.sessionId} |->
        IF s >= 1 THEN item ELSE table[s]]

PutItemLost(table, item) == table

PutItemAlone(table, item) == [s \in {item.sessionId} |-> item]

(* put_item replaces the whole item of the key *)
PutItem(table, item) ==
    [s \in DOMAIN table \cup {item.sessionId} |->
        IF s = item.sessionId THEN item ELSE table[s]]

-----------------------------------------------------------------------------
(* main.py: get_quiz_questions *)

(* lines 530-537: Literal[...], Query(ge=1, le=50), Query(ge=10, le=300) *)
QuestionParamsValidNoUpperBound(q) ==
    /\ q.bookSource \in {"readable_code", "programming_principles", "both"}
    /\ q.count >= 1
    /\ q.timeLimit >= 10

QuestionParamsValid(q) ==
    /\ q.bookSource \in {"readable_code", "programming_principles", "both"}
    /\ q.count >= 1 /\ q.count <= 50
    /\ q.timeLimit >= 10 /\ q.timeLimit <= 300

ResponseQuestionsWithKey(shuffled_problems) ==
    [i \in 1..Len(shuffled_problems) |->
        [questionId |-> shuffled_problems[i].questionId,
         question |-> shuffled_problems[i].question,
         options |-> OptionsModel(shuffled_problems[i].options),
         correctAnswer |-> shuffled_problems[i].correctAnswer]]

(* lines 593-600 *)
ResponseQuestions(shuffled_problems) ==
    [i \in 1..Len(shuffled_problems) |->
        [questionId |-> shuffled_problems[i].questionId,
         question |-> shuffled_problems[i].question,
         options |-> OptionsModel(shuffled_problems[i].options)]]

FinalResponsePerQuestionLimit(shuffled_problems, timeLimit, session_id) ==
    [questions |-> ResponseQuestions(shuffled_problems),
     timeLimit |-> timeLimit,
     sessionId |-> session_id]

(* lines 602-606 *)
FinalResponse(shuffled_problems, timeLimit, session_id) ==
    [questions |-> ResponseQuestions(shuffled_problems),
     timeLimit |-> timeLimit * Len(ResponseQuestions(shuffled_problems)),
     sessionId |-> session_id]

-----------------------------------------------------------------------------
(* Requests the clients send *)

BoundedSeqs(S, n) == UNION {[1..k -> S] : k \in 0..n}

QuestionRequest(src, count, timeLimit) ==
    [kind |-> "questions", bookSource |-> src, count |-> count, timeLimit |-> timeLimit]

(* every selector, counts below, at and above the pool sizes, the limits of *)
(* both ranges, and one request per way of being out of range               *)
QuestionRequests ==
    {QuestionRequest(src, count, 10) :
        src \in {"readable_code", "programming_principles", "both"},
        count \in {1, 2, 50}}
    \cup {QuestionRequest("both", 2, 300), QuestionRequest("readable_code", 1, 300),
          QuestionRequest("other", 1, 10),
          QuestionRequest("both", 0, 10), QuestionRequest("both", 51, 10),
          QuestionRequest("both", 1, 9), QuestionRequest("both", 1, 301)}

Ans(q, a) == [questionId |-> q, answer |-> a]

(* answer lists that pass the validation of AnswerRequest: right, wrong and *)
(* unknown choices, unknown questions, duplicates                           *)
BodyAnswers ==
    {<<>>,
     <<Ans("Q1", "A")>>,
     <<Ans("Q2", "X")>>,
     <<Ans("Q1", "A"), Ans("Q1", "B"), Ans("Q9", "A")>>}

(* answer lists with a null answer *)
NullBodyAnswers ==
    {<<Ans("Q1", None)>>,
     <<Ans("Q1", "A"), Ans("Q2", None)>>}

(* the bodies sent: every answer list for every session id, null answers   *)
(* for the ids uuid4 hands out, an answer without its answer field, and a   *)
(* body without sessionId                                                   *)
AnswerBodies ==
    [kind : {"answers"}, sessionId : SessIds, answers : BodyAnswers]
    \cup [kind : {"answers"}, sessionId : 1..MaxSess, answers : NullBodyAnswers]
    \cup {[kind |-> "answers", sessionId |-> UnknownSid,
           answers |-> <<[questionId |-> "Q1"]>>],
          [kind |-> "answers", answers |-> <<>>]}

NoItem == [kind |-> "none"]

Free(r) == pc[r] = "idle"

InFlightIssues == Cardinality({r \in Reqs : pc[r] \in {"query", "batch"}})

(* The global handles.  A request handler runs after its Depends getters   *)
(* have returned, so the handler specifications start with the handles set. *)

Tasks == {"t1", "t2", "t3"}

Getters == {"get_dynamodb_client", "get_quiz_problems_table", "get_session_data_table"}

DynamoDbClient == "dynamodb client"

QuizProblemsTable == "QuizProblems table"

SessionDataTable == "session table"

NoCall == [getter |-> None, pc |-> "idle", result |-> NoResp]

AwsReady ==
    /\ _aws_dynamodb_client = DynamoDbClient
    /\ _aws_quiz_problems_table = QuizProblemsTable
    /\ _aws_session_data_table = SessionDataTable
    /\ _client_init_lock = None
    /\ call = [t \in Tasks |-> NoCall]
    /\ init_runs = 1

HarnessIdle ==
    /\ answers_in = <<>>
    /\ session_in = [problem_data |-> <<>>, ttl |-> 0]
    /\ graded = NoResp

-----------------------------------------------------------------------------
(* The system: clock, stores and request slots *)

Init ==
    /\ now = 0
    /\ ticks = 0
    /\ pool \in Pools
    /\ sessions = InitialSessions
    /\ nextSid = 1
    /\ pc = [r \in Reqs |-> "idle"]
    /\ req = [r \in Reqs |-> NoReq]
    /\ loc = [r \in Reqs |-> NoLoc]
    /\ resp = [r \in Reqs |-> NoResp]
    /\ puts = [r \in Reqs |-> 0]
    /\ created = <<>>
    /\ HarnessIdle
    /\ AwsReady

(* The clock advances between the segments of the handlers.  A slot in     *)
(* "done" has produced its response in the segment that just ended and     *)
(* only awaits Finish, so the clock is not advanced before that.           *)
Tick ==
    /\ ticks < MaxTicks
    /\ \A r \in Reqs : pc[r] # "done"
    /\ \E d \in TickSteps : now' = now + d
    /\ ticks' = ticks + 1
    /\ UNCHANGED <<created, pool, sessions, nextSid, pc, req, loc, resp, puts,
                   answers_in, session_in, graded, aws>>

(* GET /questions arrives: FastAPI validates the query parameters, the     *)
(* handler issues the index queries and awaits asyncio.gather              *)
IssueStart(r) ==
    /\ Free(r)
    /\ \E q \in QuestionRequests :
        /\ req' = [req EXCEPT ![r] = q]
        /\ IF QuestionParamsValid(q)
           THEN /\ nextSid + InFlightIssues <= MaxSess
                /\ pc' = [pc EXCEPT ![r] = "query"]
                /\ resp' = [resp EXCEPT ![r] = NoResp]
           ELSE /\ pc' = [pc EXCEPT ![r] = "done"]
                /\ resp' = [resp EXCEPT ![r] = Unprocessable]
    /\ loc' = [loc EXCEPT ![r] = NoLoc]
    /\ puts' = [puts EXCEPT ![r] = 0]
    /\ UNCHANGED <<created, now, ticks, pool, sessions, nextSid, answers_in, session_in, graded, aws>>

(* the gathered queries return: lines 249-307, up to await batch_get_item *)
QueryReturn(r) ==
    /\ pc[r] = "query"
    /\ LET srcs == TargetBookSources(req[r].bookSource) IN
       \E query_results \in
            {qr \in [1..Len(srcs) -> UNION {QueryResponses(pool, srcs[i]) : i \in 1..Len(srcs)}
                                     \cup {QueryException}] :
                \A i \in 1..Len(srcs) :
                    qr[i] \in QueryResponses(pool, srcs[i]) \cup {QueryException}} :
       \E sel \in SelectIds(req[r].bookSource, req[r].count, query_results) :
          IF sel.kind = "raise"
          THEN /\ pc' = [pc EXCEPT ![r] = "done"]
               /\ resp' = [resp EXCEPT ![r] = sel.error]
               /\ loc' = [loc EXCEPT ![r] =
                            [kind |-> "listed", query_results |-> query_results]]
          ELSE /\ pc' = [pc EXCEPT ![r] = "batch"]
               /\ resp' = resp
               /\ loc' = [loc EXCEPT ![r] =
                            [kind |-> "selected",
                             query_results |-> query_results,
                             num_to_fetch |-> sel.value.num_to_fetch,
                             selected_ids |-> sel.value.selected_ids]]
    /\ UNCHANGED <<created, now, ticks, pool, sessions, nextSid, req, puts,
                   answers_in, session_in, graded, aws>>

(* batch_get_item returns: lines 333-386 of get_questions_from_dynamodb,   *)
(* then lines 567-587 and 403-427, up to await put_item                    *)
BatchReturn(r) ==
    /\ pc[r] = "batch"
    /\ \E outcome \in BatchOutcomes(loc[r].selected_ids) :
       \E unprocessed \in UnprocessedKeys(loc[r].selected_ids) :
          LET raw_problems_from_db ==
                  IF outcome = "ok"
                  THEN BatchItems(pool, loc[r].selected_ids, unprocessed)
                  ELSE <<>>
              loaded == LoadProblems(outcome, raw_problems_from_db, loc[r].num_to_fetch)
              fetched == [kind |-> "fetched",
                          selected_ids |-> loc[r].selected_ids,
                          outcome |-> outcome,
                          raw_problems_from_db |-> raw_problems_from_db]
          IN
          IF loaded.kind = "raise"
          THEN /\ pc' = [pc EXCEPT ![r] = "done"]
               /\ resp' = [resp EXCEPT ![r] = loaded.error]
               /\ loc' = [loc EXCEPT ![r] = fetched]
               /\ UNCHANGED nextSid
          ELSE IF loaded.value = <<>>
          THEN /\ pc' = [pc EXCEPT ![r] = "done"]
               /\ resp' = [resp EXCEPT ![r] =
                             ServiceError(404, "No questions could be loaded for source: "
                                               \o req[r].bookSource)]
               /\ loc' = [loc EXCEPT ![r] = fetched]
               /\ UNCHANGED nextSid
          ELSE \E shuffled_problems \in shuffle_options(loaded.value) :
               /\ pc' = [pc EXCEPT ![r] = "put"]
               /\ resp' = resp
               /\ nextSid' = nextSid + 1
               /\ loc' = [loc EXCEPT ![r] =
                            [kind |-> "storing",
                             raw_problems_from_db |-> raw_problems_from_db,
                             shuffled_problems |-> shuffled_problems,
                             session_id |-> nextSid,
                             current_time |-> now,
                             item_to_store |-> ItemToStore(nextSid, shuffled_problems, now)]]
    /\ UNCHANGED <<created, now, ticks, pool, sessions, req, puts, answers_in, session_in, graded, aws>>

(* put_item returns: lines 428-448, then lines 593-627 *)
PutReturn(r) ==
    /\ pc[r] = "put"
    /\ puts' = [puts EXCEPT ![r] = puts[r] + 1]
    /\ pc' = [pc EXCEPT ![r] = "done"]
    /\ \E outcome \in {"ok", "ClientError", "Exception"} :
          CASE outcome = "ok" ->
                 /\ sessions' = PutItem(sessions, loc[r].item_to_store)
                 /\ created' = [s \in DOMAIN created \cup {loc[r].session_id} |->
                                  IF s = loc[r].session_id
                                  THEN [problems |-> loc[r].shuffled_problems,
                                        current_time |-> loc[r].current_time]
                                  ELSE created[s]]
                 /\ resp' = [resp EXCEPT ![r] =
                               Ok(FinalResponse(loc[r].shuffled_problems, req[r].timeLimit,
                                                loc[r].session_id))]
            [] outcome = "ClientError" ->
                 /\ UNCHANGED <<sessions, created>>
                 /\ resp' = [resp EXCEPT ![r] =
                               ServiceError(500, "Failed to store session data.")]
            [] outcome = "Exception" ->
                 /\ UNCHANGED <<sessions, created>>
                 /\ resp' = [resp EXCEPT ![r] =
                               ServiceError(500, "Unexpected error storing session data.")]
    /\ UNCHANGED <<now, ticks, pool, nextSid, req, loc, answers_in, session_in, graded, aws>>

(* POST /answers arrives: FastAPI validates the body against AnswerRequest, *)
(* the handler awaits get_item                                              *)
SubmitStart(r) ==
    /\ Free(r)
    /\ \E body \in AnswerBodies :
        /\ req' = [req EXCEPT ![r] = body]
        /\ IF AnswerRequestValid(body)
           THEN /\ pc' = [pc EXCEPT ![r] = "get"]
                /\ resp' = [resp EXCEPT ![r] = NoResp]
           ELSE /\ pc' = [pc EXCEPT ![r] = "done"]
                /\ resp' = [resp EXCEPT ![r] = Unprocessable]
    /\ loc' = [loc EXCEPT ![r] = NoLoc]
    /\ puts' = [puts EXCEPT ![r] = 0]
    /\ UNCHANGED <<created, now, ticks, pool, sessions, nextSid, answers_in, session_in, graded, aws>>

(* get_item returns: lines 464-491, then lines 663-697 *)
GetReturn(r) ==
    /\ pc[r] = "get"
    /\ pc' = [pc EXCEPT ![r] = "done"]
    /\ \E outcome \in {"ok", "ClientError", "Exception"} :
        /\ loc' = [loc EXCEPT ![r] =
                     [kind |-> "loaded",
                      outcome |-> outcome,
                      current_time |-> now,
                      item |-> IF outcome = "ok" /\ req[r].sessionId \in DOMAIN sessions
                               THEN sessions[req[r].sessionId] ELSE NoItem,
                      session_data |-> get_session_data(outcome, sessions,
                                                        req[r].sessionId, now)]]
        /\ resp' = [resp EXCEPT ![r] = submit_answers(outcome, sessions, req[r], now)]
    /\ UNCHANGED <<created, now, ticks, pool, sessions, nextSid, req, puts,
                   answers_in, session_in, graded, aws>>

(* the response has been sent and the handler's frame is gone *)
Finish(r) ==
    /\ pc[r] = "done"
    /\ pc' = [pc EXCEPT ![r] = "idle"]
    /\ req' = [req EXCEPT ![r] = NoReq]
    /\ loc' = [loc EXCEPT ![r] = NoLoc]
    /\ resp' = [resp EXCEPT ![r] = NoResp]
    /\ puts' = [puts EXCEPT ![r] = 0]
    /\ UNCHANGED <<created, now, ticks, pool, sessions, nextSid, answers_in, session_in, graded, aws>>

Next ==
    \/ Tick
    \/ \E r \in Reqs : IssueStart(r)
    \/ \E r \in Reqs : QueryReturn(r)
    \/ \E r \in Reqs : BatchReturn(r)
    \/ \E r \in Reqs : PutReturn(r)
    \/ \E r \in Reqs : SubmitStart(r)
    \/ \E r \in Reqs : GetReturn(r)
    \/ \E r \in Reqs : Finish(r)

Spec == Init /\ [][Next]_vars

-----------------------------------------------------------------------------
(* The grader on its own: validate_answers applied to answer lists and     *)
(* session data drawn from bounded sets.  The answers are Answer objects    *)
(* and the session is a validated SessionData, as the type hints require.   *)

KeyEntry(q, correct) ==
    [questionId |-> q, correctAnswer |-> correct,
     category |-> IF q = "Q1" THEN "naming" ELSE None,
     question |-> "text of " \o q,
     options |-> <<Opt("A", "a of " \o q), Opt("B", "b of " \o q)>>,
     explanation |-> IF q = "Q2" THEN "why Q2" ELSE None]

GradeSessions ==
    {[problem_data |-> [q \in S |-> KeyEntry(q, c[q])], ttl |-> SESSION_TTL_SECONDS] :
        S \in SUBSET {"Q1", "Q2"}, c \in [{"Q1", "Q2"} -> {"A", "B"}]}

GradeAnswers == [questionId : {"Q1", "Q2", "Q9"}, answer : {"A", "B", "X"}]

InitGrade ==
    /\ now = 0
    /\ ticks = 0
    /\ pool = PoolA
    /\ sessions = InitialSessions
    /\ nextSid = 1
    /\ pc = [r \in Reqs |-> "idle"]
    /\ req = [r \in Reqs |-> NoReq]
    /\ loc = [r \in Reqs |-> NoLoc]
    /\ resp = [r \in Reqs |-> NoResp]
    /\ puts = [r \in Reqs |-> 0]
    /\ created = <<>>
    /\ answers_in \in BoundedSeqs(GradeAnswers, MaxAnswers)
    /\ session_in \in GradeSessions
    /\ graded = NoResp
    /\ AwsReady

Grade ==
    /\ graded = NoResp
    /\ graded' = validate_answers(answers_in, session_in)
    /\ UNCHANGED <<now, ticks, pool, sessions, nextSid, pc, req, loc, resp, puts,
                   created, answers_in, session_in, aws>>

NextGrade == Grade

SpecGrade == InitGrade /\ [][NextGrade]_vars

-----------------------------------------------------------------------------
(* Two requests in flight at once: the event loop runs the segments of two  *)
(* handlers in any order.  The handlers are the actions above; the requests *)
(* are one per tag and two answer lists, for the sessions of this process.  *)

Slots == {"a", "b"}

ConcQuestionRequests ==
    {QuestionRequest("readable_code", 1, 10),
     QuestionRequest("programming_principles", 1, 10)}

ConcAnswerBodies ==
    [kind : {"answers"}, sessionId : 1..(MaxSess + 1),
     answers : {<<Ans("Q1", "A")>>, <<Ans("Q2", "B"), Ans("Q1", "B")>>}]

InitConc ==
    /\ now = 0
    /\ ticks = 0
    /\ pool = PoolA
    /\ sessions = InitialSessions
    /\ nextSid = 1
    /\ pc = [r \in Slots |-> "idle"]
    /\ req = [r \in Slots |-> NoReq]
    /\ loc = [r \in Slots |-> NoLoc]
    /\ resp = [r \in Slots |-> NoResp]
    /\ puts = [r \in Slots |-> 0]
    /\ created = <<>>
    /\ HarnessIdle
    /\ AwsReady

(* GET /questions arrives with valid parameters *)
ConcIssueStart(r) ==
    /\ Free(r)
    /\ nextSid + Cardinality({x \in Slots : pc[x] \in {"query", "batch"}}) <= MaxSess + 1
    /\ \E q \in ConcQuestionRequests : req' = [req EXCEPT ![r] = q]
    /\ pc' = [pc EXCEPT ![r] = "query"]
    /\ resp' = [resp EXCEPT ![r] = NoResp]
    /\ loc' = [loc EXCEPT ![r] = NoLoc]
    /\ puts' = [puts EXCEPT ![r] = 0]
    /\ UNCHANGED <<created, now, ticks, pool, sessions, nextSid, answers_in, session_in, graded, aws>>

(* POST /answers arrives with a valid body *)
ConcSubmitStart(r) ==
    /\ Free(r)
    /\ \E body \in ConcAnswerBodies : req' = [req EXCEPT ![r] = body]
    /\ pc' = [pc EXCEPT ![r] = "get"]
    /\ resp' = [resp EXCEPT ![r] = NoResp]
    /\ loc' = [loc EXCEPT ![r] = NoLoc]
    /\ puts' = [puts EXCEPT ![r] = 0]
    /\ UNCHANGED <<created, now, ticks, pool, sessions, nextSid, answers_in, session_in, graded, aws>>

NextConc ==
    \/ \E r \in Slots : ConcIssueStart(r)
    \/ \E r \in Slots : QueryReturn(r)
    \/ \E r \in Slots : BatchReturn(r)
    \/ \E r \in Slots : PutReturn(r)
    \/ \E r \in Slots : ConcSubmitStart(r)
    \/ \E r \in Slots : GetReturn(r)
    \/ \E r \in Slots : Finish(r)

SpecConc == InitConc /\ [][NextConc]_vars

------------------------------------------------------------------------------
(* The first calls of the three getters: each task makes one getter call,  *)
(* the event loop runs the segments between the awaits in any order, and   *)
(* each await of the initialisation may raise.  asyncio.Lock wakes its     *)
(* waiters first come first served; here any waiter may be the next.       *)

HTTPException(status_code, detail) ==
    [kind |-> "error", status_code |-> status_code, detail |-> detail]

NotAvailable(g) ==
    CASE g = "get_dynamodb_client" ->
           HTTPException(503, "DynamoDB client not available after initialization attempt.")
      [] g = "get_quiz_problems_table" ->
           HTTPException(503, "Quiz problems table not available after initialization attempt.")
      [] g = "get_session_data_table" ->
           HTTPException(503, "Session data table not available after initialization attempt.")

(* the global a getter reads, given the three globals *)
Handle(g, client, quiz_table, session_table) ==
    CASE g = "get_dynamodb_client" -> client
      [] g = "get_quiz_problems_table" -> quiz_table
      [] g = "get_session_data_table" -> session_table

(* the second check of a getter and its return *)
GetterResult(g, handle) ==
    IF handle = None THEN Raise(NotAvailable(g)) ELSE Return(handle)

AwaitOutcomes == {"ok", "Exception"}

handlers == <<now, ticks, pool, sessions, nextSid, pc, req, loc, resp, puts, created,
              answers_in, session_in, graded>>

InitAws ==
    /\ now = 0
    /\ ticks = 0
    /\ pool = PoolA
    /\ sessions = InitialSessions
    /\ nextSid = 1
    /\ pc = [r \in Reqs |-> "idle"]
    /\ req = [r \in Reqs |-> NoReq]
    /\ loc = [r \in Reqs |-> NoLoc]
    /\ resp = [r \in Reqs |-> NoResp]
    /\ puts = [r \in Reqs |-> 0]
    /\ created = <<>>
    /\ HarnessIdle
    /\ _aws_dynamodb_client = None
    /\ _aws_quiz_problems_table = None
    /\ _aws_session_data_table = None
    /\ _client_init_lock = None
    /\ call = [t \in Tasks |-> NoCall]
    /\ init_runs = 0

EnterInitializeNoRecheck(t, g) ==
    /\ _client_init_lock' = t
    /\ init_runs' = init_runs + 1
    /\ call' = [call EXCEPT ![t] = [getter |-> g, pc |-> "client_enter",
                                    result |-> NoResp]]

(* _initialize_global_aws_clients from the moment the lock is acquired up  *)
(* to its first await, or through the else branch back into the getter     *)
EnterInitialize(t, g) ==
    IF _aws_dynamodb_client = None
    THEN /\ _client_init_lock' = t
         /\ init_runs' = init_runs + 1
         /\ call' = [call EXCEPT ![t] = [getter |-> g, pc |-> "client_enter",
                                         result |-> NoResp]]
    ELSE /\ call' = [call EXCEPT ![t] =
                        [getter |-> g, pc |-> "done",
                         result |-> GetterResult(g,
                                      Handle(g, _aws_dynamodb_client,
                                             _aws_quiz_problems_table,
                                             _aws_session_data_table))]]
         /\ UNCHANGED <<_client_init_lock, init_runs>>

(* an await of the initialisation raised: the lock is released and the     *)
(* exception leaves the getter                                             *)
InitializeRaised(t) ==
    /\ _client_init_lock' = None
    /\ call' = [call EXCEPT ![t].pc = "done",
                            ![t].result = Raise(HTTPException(500, "Exception"))]

(* a getter is called *)
GetterCall(t) ==
    /\ call[t].pc = "idle"
    /\ \E g \in Getters :
         LET handle == Handle(g, _aws_dynamodb_client, _aws_quiz_problems_table,
                              _aws_session_data_table)
         IN  IF handle # None
             THEN /\ call' = [call EXCEPT ![t] = [getter |-> g, pc |-> "done",
                                                  result |-> GetterResult(g, handle)]]
                  /\ UNCHANGED <<_client_init_lock, init_runs>>
             ELSE IF _client_init_lock = None
                  THEN EnterInitialize(t, g)
                  ELSE /\ call' = [call EXCEPT ![t] = [getter |-> g, pc |-> "lock",
                                                       result |-> NoResp]]
                       /\ UNCHANGED <<_client_init_lock, init_runs>>
    /\ UNCHANGED <<_aws_dynamodb_client, _aws_quiz_problems_table,
                   _aws_session_data_table, handlers>>

(* a task waiting for the lock gets it *)
LockAcquired(t) ==
    /\ call[t].pc = "lock"
    /\ _client_init_lock = None
    /\ EnterInitialize(t, call[t].getter)
    /\ UNCHANGED <<_aws_dynamodb_client, _aws_quiz_problems_table,
                   _aws_session_data_table, handlers>>

(* await temp_dynamodb_client.__aenter__() returns or raises *)
ClientEntered(t) ==
    /\ call[t].pc = "client_enter"
    /\ \E outcome \in AwaitOutcomes :
         IF outcome = "ok"
         THEN /\ _aws_dynamodb_client' = DynamoDbClient
              /\ call' = [call EXCEPT ![t].pc = "resource_enter"]
              /\ UNCHANGED _client_init_lock
         ELSE /\ InitializeRaised(t)
              /\ UNCHANGED _aws_dynamodb_client
    /\ UNCHANGED <<_aws_quiz_problems_table, _aws_session_data_table, init_runs,
                   handlers>>

(* await temp_dynamodb_resource.__aenter__() returns or raises *)
ResourceEntered(t) ==
    /\ call[t].pc = "resource_enter"
    /\ \E outcome \in AwaitOutcomes :
         IF outcome = "ok"
         THEN /\ call' = [call EXCEPT ![t].pc = "quiz_table"]
              /\ UNCHANGED _client_init_lock
         ELSE InitializeRaised(t)
    /\ UNCHANGED <<_aws_dynamodb_client, _aws_quiz_problems_table,
                   _aws_session_data_table, init_runs, handlers>>

(* await entered_dynamodb_resource.Table(quiz problems) returns or raises *)
QuizTableReturned(t) ==
    /\ call[t].pc = "quiz_table"
    /\ \E outcome \in AwaitOutcomes :
         IF outcome = "ok"
         THEN /\ _aws_quiz_problems_table' = QuizProblemsTable
              /\ call' = [call EXCEPT ![t].pc = "session_table"]
              /\ UNCHANGED _client_init_lock
         ELSE /\ InitializeRaised(t)
              /\ UNCHANGED _aws_quiz_problems_table
    /\ UNCHANGED <<_aws_dynamodb_client, _aws_session_data_table, init_runs, handlers>>

(* await entered_dynamodb_resource.Table(session) returns or raises; on    *)
(* return the lock is released and the getter makes its second check       *)
SessionTableReturned(t) ==
    /\ call[t].pc = "session_table"
    /\ \E outcome \in AwaitOutcomes :
         IF outcome = "ok"
         THEN /\ _aws_session_data_table' = SessionDataTable
              /\ _client_init_lock' = None
              /\ call' = [call EXCEPT
                            ![t].pc = "done",
                            ![t].result =
                                GetterResult(call[t].getter,
                                             Handle(call[t].getter, _aws_dynamodb_client,
                                                    _aws_quiz_problems_table,
                                                    SessionDataTable))]
         ELSE /\ InitializeRaised(t)
              /\ UNCHANGED _aws_session_data_table
    /\ UNCHANGED <<_aws_dynamodb_client, _aws_quiz_problems_table, init_runs, handlers>>

NextAws ==
    \/ \E t \in Tasks : GetterCall(t)
    \/ \E t \in Tasks : LockAcquired(t)
    \/ \E t \in Tasks : ClientEntered(t)
    \/ \E t \in Tasks : ResourceEntered(t)
    \/ \E t \in Tasks : QuizTableReturned(t)
    \/ \E t \in Tasks : SessionTableReturned(t)

SpecAws == InitAws /\ [][NextAws]_vars

-----------------------------------------------------------------------------
(* Properties *)

NotFoundResponse == ServiceError(404, "Session not found or expired.")

(* a POST /answers request that passed body validation and has been answered *)
SubmitDone(r) == pc[r] = "done" /\ req[r].kind = "answers" /\ loc[r].kind = "loaded"

(* ... and whose get_item found an item under the session id *)
Loaded(r) == SubmitDone(r) /\ loc[r].outcome = "ok" /\ loc[r].item # NoItem

IdsOf(problems) == {problems[i].questionId : i \in 1..Len(problems)}

(* C1, as stated: a well-formed session record with expiry E loads at time *)
(* E - 1 and is NotFound at every time t >= E, t = E included.             *)
C1_TtlBoundaryAsStated ==
    \A r \in Reqs :
        Loaded(r) /\ SessionDataValid(loc[r].item) =>
            /\ loc[r].current_time = loc[r].item.ttl - 1 => resp[r].kind = "ok"
            /\ loc[r].current_time >= loc[r].item.ttl => resp[r] = NotFoundResponse

(* C1, amended: a well-formed session record with expiry E loads at every  *)
(* time t <= E (E - 1 and E itself included) and is NotFound at every time *)
(* t > E.                                                                  *)
C1_TtlBoundary ==
    \A r \in Reqs :
        Loaded(r) /\ SessionDataValid(loc[r].item) =>
            /\ loc[r].current_time <= loc[r].item.ttl => resp[r].kind = "ok"
            /\ loc[r].current_time > loc[r].item.ttl => resp[r] = NotFoundResponse

C1_LoadedAtExpiry ==
    \E r \in Reqs :
        /\ Loaded(r) /\ SessionDataValid(loc[r].item)
        /\ loc[r].current_time = loc[r].item.ttl
        /\ resp[r].kind = "ok"

C3_TtlIsCreationPlus7200 ==
    [][\A s \in DOMAIN sessions' :
          (IF s \in DOMAIN sessions THEN sessions'[s] # sessions[s] ELSE TRUE) =>
              \E r \in Reqs :
                  /\ pc[r] = "put"
                  /\ loc[r].session_id = s
                  /\ sessions'[s].ttl = loc[r].current_time + 7200]_vars

C3_StoredAfterClockMoved ==
    \E s \in DOMAIN created :
        /\ created[s].current_time > 0
        /\ sessions[s].ttl = created[s].current_time + 7200
        /\ now > created[s].current_time

(* C4: a session created from the problem list S and loaded at the time of *)
(* its creation is returned, and whenever it is returned the keys of its   *)
(* problem_data are exactly the questionIds of S.                          *)
C4_RoundTripKeys ==
    \A r \in Reqs :
        SubmitDone(r) /\ loc[r].outcome = "ok" /\ req[r].sessionId \in DOMAIN created =>
            LET made == created[req[r].sessionId]
                got == loc[r].session_data
            IN /\ loc[r].current_time = made.current_time => got.kind = "return"
               /\ got.kind = "return" =>
                      DOMAIN got.value.problem_data = IdsOf(made.problems)

C4_LoadedTwoQuestions ==
    \E r \in Reqs :
        /\ SubmitDone(r) /\ loc[r].outcome = "ok" /\ req[r].sessionId \in DOMAIN created
        /\ loc[r].current_time = created[req[r].sessionId].current_time
        /\ loc[r].session_data.kind = "return"
        /\ Cardinality(IdsOf(created[req[r].sessionId].problems)) = 2

(* C5: a POST /answers whose session id has no item and one whose item has *)
(* expired get the same response: 404 with the same detail, no results.    *)
C5_ExpiredLikeAbsent ==
    \A r \in Reqs :
        /\ SubmitDone(r) /\ loc[r].outcome = "ok"
        /\ \/ loc[r].item = NoItem
           \/ "ttl" \in DOMAIN loc[r].item /\ loc[r].item.ttl < loc[r].current_time
        => resp[r] = NotFoundResponse

C5_ExpiredAnswered ==
    \E r \in Reqs :
        /\ Loaded(r) /\ SessionDataValid(loc[r].item)
        /\ loc[r].item.ttl < loc[r].current_time
        /\ resp[r].status_code = 404

Known(a) == a.questionId \in DOMAIN session_in.problem_data

(* C7: validate_answers returns, without raising, one Result per answer    *)
(* whose questionId is in the session, in the order of the answers, and    *)
(* nothing for the other answers.                                           *)
C7_GraderFilters ==
    graded.kind # "none" =>
        /\ graded.kind = "return"
        /\ LET kept == SelectSeq(answers_in, Known)
               results == graded.value
           IN /\ Len(results) = Len(kept)
              /\ Len(results) <= Len(answers_in)
              /\ \A i \in 1..Len(results) :
                     /\ results[i].questionId = kept[i].questionId
                     /\ results[i].userAnswer = kept[i].answer
              /\ (answers_in = <<>> \/ DOMAIN session_in.problem_data = {}) =>
                     results = <<>>

C7_UnknownDropped ==
    /\ graded.kind = "return"
    /\ Len(answers_in) = 2
    /\ ~Known(answers_in[1])
    /\ Known(answers_in[2])
    /\ Len(graded.value) = 1
    /\ graded.value[1].userAnswer = "X"

HasNullAnswer(r) ==
    /\ req[r].kind = "answers"
    /\ "sessionId" \in DOMAIN req[r]
    /\ req[r].sessionId \in DOMAIN created
    /\ now <= sessions[req[r].sessionId].ttl
    /\ \E i \in 1..Len(req[r].answers) :
          /\ "answer" \in DOMAIN req[r].answers[i]
          /\ req[r].answers[i].answer = None
          /\ req[r].answers[i].questionId
                 \in DOMAIN sessions[req[r].sessionId].problem_data

(* C8: a POST /answers with a null answer to a question of a live session  *)
(* succeeds, and its results hold a Result with isCorrect = false that     *)
(* echoes the null answer.                                                  *)
C8_NullAnswerGraded ==
    \A r \in Reqs :
        pc[r] = "done" /\ HasNullAnswer(r) =>
            /\ resp[r].kind = "ok"
            /\ \E i \in 1..Len(resp[r].body.results) :
                  /\ resp[r].body.results[i].userAnswer = None
                  /\ ~resp[r].body.results[i].isCorrect

Occurrences(seq, q) == Cardinality({i \in 1..Len(seq) : seq[i].questionId = q})

(* C9: every occurrence of a questionId of the session gets its own        *)
(* Result, and two Results for the same questionId and the same answer     *)
(* have the same isCorrect.                                                 *)
C9_DuplicatesGraded ==
    graded.kind = "return" =>
        LET results == graded.value IN
        /\ \A q \in DOMAIN session_in.problem_data :
               Occurrences(results, q) = Occurrences(answers_in, q)
        /\ \A i, j \in 1..Len(results) :
               /\ results[i].questionId = results[j].questionId
               /\ results[i].userAnswer = results[j].userAnswer
               => results[i].isCorrect = results[j].isCorrect

C9_SameQuestionTwice ==
    /\ graded.kind = "return"
    /\ Len(graded.value) = 2
    /\ graded.value[1].questionId = graded.value[2].questionId
    /\ graded.value[1].isCorrect
    /\ ~graded.value[2].isCorrect

(* C10: a Result is correct iff its answer equals the correctAnswer of the *)
(* key entry of its questionId, an answer that is none of the options is   *)
(* incorrect, and the other fields are those of that key entry.            *)
C10_ResultFromKeyEntry ==
    graded.kind = "return" =>
        \A i \in 1..Len(graded.value) :
            LET r == graded.value[i]
                entry == session_in.problem_data[r.questionId]
            IN /\ r.isCorrect <=> r.userAnswer = entry.correctAnswer
               /\ r.userAnswer \notin {entry.options[k].id : k \in 1..Len(entry.options)}
                      => ~r.isCorrect
               /\ r.userAnswer = SelectSeq(answers_in, Known)[i].answer
               /\ r.correctAnswer = entry.correctAnswer
               /\ r.category = entry.category
               /\ r.question = entry.question
               /\ r.options = entry.options
               /\ r.explanation = entry.explanation

C10_RightAndNotAnOption ==
    /\ graded.kind = "return"
    /\ Len(graded.value) = 2
    /\ graded.value[1].isCorrect
    /\ graded.value[2].userAnswer = "X"
    /\ ~graded.value[2].isCorrect
    /\ graded.value[1].questionId # graded.value[2].questionId

-----------------------------------------------------------------------------
(* Properties of IssueQuestions *)

(* a GET /questions request that passed parameter validation and has been  *)
(* answered                                                                 *)
IssueDone(r) ==
    pc[r] = "done" /\ req[r].kind = "questions" /\ QuestionParamsValid(req[r])

IssueOk(r) == IssueDone(r) /\ resp[r].kind = "ok"

(* the records of the table that carry a tag of the selector and validate *)
ValidPoolIds(table, book_source) ==
    {q \in DOMAIN table :
        /\ table[q].bookSource \in Range(TargetBookSources(book_source))
        /\ ProblemDataValid(table[q])}

(* the selected ids whose record batch_get_item returned and that validate *)
UsableIds(table, selected_ids, unprocessed) ==
    SelectSeq(selected_ids,
              LAMBDA q : /\ q \in DOMAIN table
                         /\ q \notin unprocessed
                         /\ ProblemDataValid(table[q]))

(* C11, as stated: a successful IssueQuestions returns exactly             *)
(* min(count, P') questions, P' being the number of records of the pool    *)
(* for the selector that pass validation.                                   *)
C11_SamplingCountAsStated ==
    \A r \in Reqs :
        IssueOk(r) =>
            Len(resp[r].body.questions) =
                Min(req[r].count, Cardinality(ValidPoolIds(pool, req[r].bookSource)))

(* C11, amended: the ids are drawn before their records are validated, so  *)
(* a successful IssueQuestions returns exactly as many questions as there   *)
(* are selected ids whose record was returned by the batch read and passes  *)
(* validation: at least one, and at most min(count, number of listed ids).  *)
C11_SamplingCount ==
    [][\A r \in Reqs :
          /\ pc[r] = "batch" /\ pc'[r] = "put" =>
                LET n == Len(loc'[r].shuffled_problems) IN
                /\ \E unprocessed \in SUBSET Range(loc[r].selected_ids) :
                       n = Len(UsableIds(pool, loc[r].selected_ids, unprocessed))
                /\ 1 <= n
                /\ n <= Min(req[r].count, Len(AllQuestionIds(loc[r].query_results)))
          /\ pc[r] = "put" /\ resp'[r].kind = "ok" =>
                Len(resp'[r].body.questions) = Len(loc[r].shuffled_problems)]_vars

(* one question is returned although two were requested and two records of *)
(* the pool validate                                                        *)
C11_FewerThanValid ==
    \E r \in Reqs :
        /\ IssueOk(r)
        /\ Len(resp[r].body.questions) = 1
        /\ req[r].count = 2
        /\ Cardinality(ValidPoolIds(pool, req[r].bookSource)) = 2

(* C12: no response holds more questions than requested or the same       *)
(* questionId twice, whatever the listings contain, because the ids are     *)
(* deduplicated before the draw: the draw never holds an id twice and its   *)
(* size is min(count, number of distinct listed ids).                       *)
C12_DrawnFromDeduplicatedPool ==
    \A r \in Reqs :
        /\ IssueOk(r) =>
              /\ Len(resp[r].body.questions) <= req[r].count
              /\ \A i, j \in 1..Len(resp[r].body.questions) :
                     i # j => resp[r].body.questions[i].questionId
                                 # resp[r].body.questions[j].questionId
        /\ loc[r].kind = "selected" =>
              /\ ~HasDuplicates(loc[r].selected_ids)
              /\ loc[r].num_to_fetch =
                     Min(req[r].count,
                         Cardinality(Range(AllQuestionIds(loc[r].query_results))))

(* every index query of the request returned a response *)
Listings(r) ==
    /\ loc[r].kind \in {"listed", "selected"}
    /\ \A i \in 1..Len(loc[r].query_results) : loc[r].query_results[i].kind = "response"

(* C13: when the listings of the selector hold no id, IssueQuestions fails *)
(* with NotFound (404), returns no body and hence no sessionId, and makes  *)
(* no put to the session table.                                            *)
C13_NoIdsIsNotFound ==
    \A r \in Reqs :
        IssueDone(r) /\ Listings(r) /\ AllQuestionIds(loc[r].query_results) = <<>> =>
            /\ resp[r].kind = "error"
            /\ resp[r].status_code = 404
            /\ "body" \notin DOMAIN resp[r]
            /\ puts[r] = 0
            /\ DOMAIN sessions = DOMAIN InitialSessions \cup DOMAIN created

C13_EmptyListingsAnswered ==
    \E r \in Reqs :
        /\ IssueDone(r) /\ Listings(r)
        /\ req[r].bookSource = "both"
        /\ AllQuestionIds(loc[r].query_results) = <<>>
        /\ resp[r] = ServiceError(404, "No questions found for source: both")

(* the pool of the selector: the distinct ids its listings hold *)
ListedIds(r) == Range(AllQuestionIds(loc[r].query_results))

(* C14: when the non-empty pool of the selector holds fewer ids than       *)
(* requested, the request does not fail for that: the draw has the size of *)
(* the pool and holds every id of the pool.                                *)
C14_ShortPoolDrawnWhole ==
    \A r \in Reqs :
        /\ Listings(r)
        /\ ListedIds(r) # {}
        /\ Cardinality(ListedIds(r)) < req[r].count
        => /\ loc[r].kind = "selected"
           /\ loc[r].num_to_fetch = Cardinality(ListedIds(r))
           /\ Len(loc[r].selected_ids) = Cardinality(ListedIds(r))
           /\ Range(loc[r].selected_ids) = ListedIds(r)

(* batch_get_item of the request returned a response *)
Fetched(r) ==
    \/ loc[r].kind = "storing"
    \/ loc[r].kind = "fetched" /\ loc[r].outcome = "ok"

(* the ids of the returned records that validate, in the order returned *)
ValidRawIds(r) ==
    LET valid == SelectSeq(loc[r].raw_problems_from_db, ProblemDataValid) IN
    [i \in 1..Len(valid) |-> valid[i].questionId]

AllFailed == ServiceError(500, "Failed to load or validate any question data after fetching.")

(* C15: once the batch read has returned, a selected id whose record is    *)
(* not among the returned ones or fails validation is dropped and the      *)
(* others are kept: if at least one returned record validates, the sampler *)
(* succeeds with exactly the validating records, in order; if none does,   *)
(* the request fails with 500, neither 404 nor a success without questions.*)
C15_InvalidRecordsDropped ==
    \A r \in Reqs :
        Fetched(r) =>
            IF ValidRawIds(r) # <<>>
            THEN /\ loc[r].kind = "storing"
                 /\ [i \in 1..Len(loc[r].shuffled_problems) |->
                        loc[r].shuffled_problems[i].questionId] = ValidRawIds(r)
                 /\ resp[r] # AllFailed
            ELSE /\ loc[r].kind = "fetched"
                 /\ IssueDone(r)
                 /\ resp[r] = AllFailed
                 /\ puts[r] = 0

(* a valid and an invalid record were returned and the valid one is served *)
C15_ValidSiblingServed ==
    \E r \in Reqs :
        /\ IssueOk(r) /\ loc[r].kind = "storing"
        /\ Len(loc[r].raw_problems_from_db) = 2
        /\ ValidRawIds(r) = <<"Q1">>
        /\ Len(resp[r].body.questions) = 1
        /\ resp[r].body.questions[1].questionId = "Q1"

(* the same record with another correct option id and another explanation *)
Rekey(item) ==
    IF HasFields(item, {"correctAnswer", "explanation"})
    THEN [item EXCEPT !.correctAnswer = IF item.correctAnswer = "A" THEN "B" ELSE "A",
                      !.explanation = [explanation |-> "another reason"]]
    ELSE item

Rekeyed(items) == [i \in 1..Len(items) |-> Rekey(items[i])]

(* C16: the response of IssueQuestions holds questions, timeLimit and       *)
(* sessionId, each question holds questionId, question and options, each    *)
(* option id and text; from a pool that differs only in the correct option  *)
(* ids and the explanations the same random choices give the same response; *)
(* the correct option ids and explanations are in the session record.       *)
C16_ResponseHidesAnswers ==
    \A r \in Reqs :
        IssueOk(r) =>
            LET body == resp[r].body
                problems == loc[r].shuffled_problems
                other == Rekeyed(problems)
            IN /\ DOMAIN body = {"questions", "timeLimit", "sessionId"}
               /\ \A i \in 1..Len(body.questions) :
                     /\ DOMAIN body.questions[i] = {"questionId", "question", "options"}
                     /\ \A k \in 1..Len(body.questions[i].options) :
                            DOMAIN body.questions[i].options[k] = {"id", "text"}
               /\ other # problems
               /\ other \in shuffle_options(
                                ParseProblems(Rekeyed(loc[r].raw_problems_from_db)))
               /\ FinalResponse(other, req[r].timeLimit, loc[r].session_id) = body
               /\ \A i \in 1..Len(problems) :
                     LET entry == sessions[body.sessionId].problem_data[problems[i].questionId]
                     IN /\ entry.correctAnswer = problems[i].correctAnswer
                        /\ entry.explanation = problems[i].explanation.explanation

(* two questions with their options have been returned *)
C16_TwoQuestionsReturned ==
    \E r \in Reqs :
        /\ IssueOk(r)
        /\ Len(resp[r].body.questions) = 2
        /\ Len(resp[r].body.questions[1].options) = 2
        /\ loc[r].shuffled_problems[1].correctAnswer
               = resp[r].body.questions[1].options[2].id

(* C17: the timeLimit of a successful response is the per-question limit  *)
(* of the request times the number of questions in that response, whatever *)
(* count was requested.                                                     *)
C17_TotalTimeLimit ==
    \A r \in Reqs :
        IssueOk(r) =>
            /\ resp[r].body.timeLimit = req[r].timeLimit * Len(resp[r].body.questions)
            /\ resp[r].body.timeLimit >= 10 * Len(resp[r].body.questions)
            /\ resp[r].body.timeLimit <= 300 * Len(resp[r].body.questions)

(* the upper limit, with fewer questions returned than requested *)
C17_FewerThanRequestedAtLimit ==
    \E r \in Reqs :
        /\ IssueOk(r)
        /\ req[r].timeLimit = 300
        /\ req[r].count = 2
        /\ Len(resp[r].body.questions) = 1
        /\ resp[r].body.timeLimit = 300

(* C18: a sessionId is returned only after put_item has stored the record *)
(* under that id; when put_item fails the request ends with 500 and no body *)
(* (no sessionId, no questions); put_item is called exactly once either way.*)
C18_SessionIdAfterPersist ==
    \A r \in Reqs :
        /\ pc[r] = "put" => resp[r] = NoResp /\ puts[r] = 0
        /\ IssueOk(r) => loc[r].kind = "storing"
        /\ IssueDone(r) /\ loc[r].kind = "storing" =>
              /\ puts[r] = 1
              /\ resp[r].kind = "ok" =>
                    /\ resp[r].body.sessionId = loc[r].session_id
                    /\ loc[r].session_id \in DOMAIN sessions
                    /\ sessions[loc[r].session_id] = loc[r].item_to_store
              /\ resp[r].kind # "ok" =>
                    /\ resp[r].kind = "error"
                    /\ resp[r].status_code = 500
                    /\ "body" \notin DOMAIN resp[r]

(* put_item failed once and the request ended with 500 *)
C18_WriteFailedOnce ==
    \E r \in Reqs :
        /\ IssueDone(r) /\ loc[r].kind = "storing"
        /\ resp[r] = ServiceError(500, "Failed to store session data.")
        /\ puts[r] = 1
        /\ loc[r].session_id \notin DOMAIN sessions

(* C19: no step changes or removes an item of the session table; a step of *)
(* POST /answers leaves the whole table as it is.                          *)
C19_WriteOnce ==
    [][/\ \A s \in DOMAIN sessions :
             s \in DOMAIN sessions' /\ sessions'[s] = sessions[s]
       /\ \A r \in Reqs :
             (pc[r] = "get" \/ pc'[r] = "get") => sessions' = sessions]_vars

(* a session stored by this process has been graded and is still the item  *)
(* that was put                                                             *)
C19_GradedAndKept ==
    \E r \in Reqs :
        /\ SubmitDone(r) /\ resp[r].kind = "ok"
        /\ req[r].sessionId \in DOMAIN created
        /\ Len(resp[r].body.results) > 0
        /\ sessions[req[r].sessionId] =
               ItemToStore(req[r].sessionId, created[req[r].sessionId].problems,
                           created[req[r].sessionId].current_time)

InternalError(response) == response.kind = "error" /\ response.status_code = 500

StoreOutcomes == {"ok", "ClientError", "Exception"}

(* C20: an InternalError response carries the same message whatever its    *)
(* cause: the request that has just been answered with 500 would have got  *)
(* the same message from every other failure of the same store call or of  *)
(* the step that follows it.                                               *)
C20_OneGenericMessage ==
    \A r \in Reqs :
        InternalError(resp[r]) =>
            /\ SubmitDone(r) =>
                  \A outcome \in StoreOutcomes :
                      LET other == submit_answers(outcome, sessions, req[r],
                                                  loc[r].current_time)
                      IN InternalError(other) => other.detail = resp[r].detail
            /\ loc[r].kind = "fetched" =>
                  \A outcome \in StoreOutcomes :
                      LET other == LoadProblems(outcome, loc[r].raw_problems_from_db,
                                                Len(loc[r].selected_ids))
                      IN other.kind = "raise" => other.error.detail = resp[r].detail

(* a store operation of the request has raised: an index query, the batch *)
(* read, put_item or get_item                                               *)
StoreFailed(r) ==
    \/ /\ loc[r].kind = "listed"
       /\ \E i \in 1..Len(loc[r].query_results) : loc[r].query_results[i].kind = "exception"
    \/ loc[r].kind = "fetched" /\ loc[r].outcome # "ok"
    \/ loc[r].kind = "storing" /\ pc[r] = "done" /\ loc[r].session_id \notin DOMAIN sessions
    \/ loc[r].kind = "loaded" /\ loc[r].outcome # "ok"

(* C21: a request that passed input validation ends with a success body or *)
(* with a ServiceError of status 404 or 500 and no body, nothing else; and  *)
(* when one of its store operations has raised it ends with 500.            *)
C21_FailuresAreServiceErrors ==
    \A r \in Reqs :
        pc[r] = "done" /\ resp[r] # Unprocessable =>
            /\ \/ resp[r].kind = "ok" /\ resp[r].status_code = 200
               \/ /\ resp[r].kind = "error"
                  /\ resp[r].status_code \in {404, 500}
                  /\ DOMAIN resp[r] = {"kind", "status_code", "detail"}
            /\ StoreFailed(r) => InternalError(resp[r])

(* get_item raised an exception that is not a ClientError *)
C21_GetItemRaised ==
    \E r \in Reqs :
        /\ SubmitDone(r)
        /\ loc[r].outcome = "Exception"
        /\ req[r].sessionId \in DOMAIN created
        /\ InternalError(resp[r])

(* the request is outside the declared input domain *)
OutOfRange(q) ==
    \/ /\ q.kind = "questions"
       /\ \/ q.count \notin 1..50
          \/ q.timeLimit \notin 10..300
          \/ q.bookSource \notin {"readable_code", "programming_principles", "both"}
    \/ /\ q.kind = "answers"
       /\ \/ "sessionId" \notin DOMAIN q
          \/ \E i \in 1..Len(q.answers) :
                \/ DOMAIN q.answers[i] # {"questionId", "answer"}
                \/ q.answers[i].answer = None

(* C22: a request outside the input domain is answered with 422 at once:   *)
(* it never waits for a store call, holds no listing, no fetched record and *)
(* no loaded session, and has made no put.                                  *)
C22_ValidationFirst ==
    \A r \in Reqs :
        req[r] # NoReq /\ OutOfRange(req[r]) =>
            /\ pc[r] = "done"
            /\ resp[r] = Unprocessable
            /\ loc[r] = NoLoc
            /\ puts[r] = 0
            /\ DOMAIN sessions = DOMAIN InitialSessions \cup DOMAIN created

(* count = 51 has been rejected *)
C22_CountAboveRangeRejected ==
    \E r \in Reqs :
        /\ pc[r] = "done"
        /\ req[r].kind = "questions"
        /\ req[r].count = 51
        /\ resp[r].status_code = 422

(* C23: the draw is made from the ids of all pages: no listing the draw is *)
(* made from ends with a continuation key, and every id the index holds for *)
(* a tag of the selector is among the ids drawn from.                       *)
C23_AllPagesBeforeDraw ==
    \A r \in Reqs :
        loc[r].kind = "selected" =>
            LET srcs == TargetBookSources(req[r].bookSource) IN
            \A i \in 1..Len(srcs) :
                /\ ~loc[r].query_results[i].LastEvaluatedKey
                /\ \A k \in 1..Len(QueryItems(pool, srcs[i])) :
                       QueryItems(pool, srcs[i])[k].questionId \in ListedIds(r)

(* C24: the draw is made only from the results of all the index queries of *)
(* the request; when one of them has raised, also next to one that has      *)
(* returned ids, nothing is drawn, fetched or put and the request ends with *)
(* 500.                                                                     *)
C24_NoPartialJoin ==
    \A r \in Reqs :
        loc[r].kind \in {"listed", "selected"} =>
            /\ Len(loc[r].query_results) = Len(TargetBookSources(req[r].bookSource))
            /\ (\E i \in 1..Len(loc[r].query_results) :
                    loc[r].query_results[i].kind = "exception")
               => /\ loc[r].kind = "listed"
                  /\ pc[r] = "done"
                  /\ InternalError(resp[r])
                  /\ puts[r] = 0
                  /\ DOMAIN sessions = DOMAIN InitialSessions \cup DOMAIN created

(* the query of one tag returned ids and the query of the other tag raised *)
C24_OneListingFailed ==
    \E r \in Reqs :
        /\ IssueDone(r) /\ loc[r].kind = "listed"
        /\ req[r].bookSource = "both"
        /\ loc[r].query_results[1].kind = "response"
        /\ Len(loc[r].query_results[1].Items) = 2
        /\ loc[r].query_results[2].kind = "exception"
        /\ InternalError(resp[r])

(* how often the option o occurs in the list *)
Count(options, o) == Cardinality({k \in 1..Len(options) : options[k] = o})

SameOptions(before, after) ==
    /\ Len(after) = Len(before)
    /\ \A o \in Range(before) \cup Range(after) : Count(after, o) = Count(before, o)

(* a valid record without options *)
NoOptions == ProblemDataModel(Problem("Q0", "readable_code", None, <<>>, "A", "why Q0"))

(* C25: shuffle_options returns the same questions in the same order; each *)
(* has the same options, each as often as before, the same correctAnswer,  *)
(* the id of one of its options as it was before, and all its other fields; *)
(* a list of no or one option is returned as it was.                        *)
C25_ShuffleOnlyReorders ==
    /\ shuffle_options(<<NoOptions>>) = {<<NoOptions>>}
    /\ \A r \in Reqs :
          loc[r].kind = "storing" =>
              LET before == ParseProblems(loc[r].raw_problems_from_db)
                  after == loc[r].shuffled_problems
              IN /\ Len(after) = Len(before)
                 /\ \A i \in 1..Len(before) :
                       /\ SameOptions(before[i].options, after[i].options)
                       /\ [after[i] EXCEPT !.options = before[i].options] = before[i]
                       /\ after[i].correctAnswer = before[i].correctAnswer
                       /\ after[i].correctAnswer \in
                              {after[i].options[k].id : k \in 1..Len(after[i].options)}
                          <=> before[i].correctAnswer \in
                              {before[i].options[k].id : k \in 1..Len(before[i].options)}
                       /\ Len(before[i].options) <= 1 => after[i] = before[i]

(* the two options of Q1 have changed places, the single option of Q2 has  *)
(* stayed                                                                   *)
C25_OptionsSwapped ==
    \E r \in Reqs :
        /\ loc[r].kind = "storing"
        /\ Len(loc[r].shuffled_problems) = 2
        /\ \E i \in 1..2 :
              /\ loc[r].shuffled_problems[i].questionId = "Q1"
              /\ loc[r].shuffled_problems[i].options = <<Opt("B", "b1"), Opt("A", "a1")>>
              /\ loc[r].shuffled_problems[i].correctAnswer = "A"
        /\ \E i \in 1..2 :
              /\ loc[r].shuffled_problems[i].questionId = "Q2"
              /\ Len(loc[r].shuffled_problems[i].options) = 1

(* C26: the item stored under the sessionId of a successful response has  *)
(* an entry for exactly the questionIds of the response, and each entry     *)
(* holds the options of its question in the order of the response.          *)
C26_KeyMatchesResponse ==
    \A r \in Reqs :
        IssueOk(r) =>
            LET body == resp[r].body
                record == sessions[body.sessionId]
            IN /\ DOMAIN record.problem_data =
                      {body.questions[i].questionId : i \in 1..Len(body.questions)}
               /\ \A i \in 1..Len(body.questions) :
                     LET entry == record.problem_data[body.questions[i].questionId]
                     IN /\ entry.questionId = body.questions[i].questionId
                        /\ entry.options = body.questions[i].options
                        /\ entry.question = body.questions[i].question

(* Q1 was returned with its options in the order B, A and is stored so *)
C26_SwappedOrderStored ==
    \E r \in Reqs :
        /\ IssueOk(r)
        /\ Len(resp[r].body.questions) = 2
        /\ \E i \in 1..2 :
              /\ resp[r].body.questions[i].questionId = "Q1"
              /\ resp[r].body.questions[i].options = <<Opt("B", "b1"), Opt("A", "a1")>>
        /\ sessions[resp[r].body.sessionId].problem_data["Q1"].options
               = <<Opt("B", "b1"), Opt("A", "a1")>>

(* the ids uuid4 has handed out so far *)
HandedOut == 1..(nextSid - 1)

EntryFields == {"questionId", "correctAnswer", "category", "question", "options",
                "explanation"}

(* C27: in every state the session table holds, under an id this process   *)
(* has handed out, either no item or the whole item: sessionId, ttl and an  *)
(* entry with all its fields for every problem of the session; while the    *)
(* put is awaited and after it has failed there is no item under the id.    *)
C27_NoPartialRecord ==
    /\ \A s \in HandedOut :
          s \in DOMAIN sessions =>
              /\ s \in DOMAIN created
              /\ DOMAIN sessions[s] = {"sessionId", "ttl", "problem_data"}
              /\ sessions[s].sessionId = s
              /\ sessions[s].ttl = created[s].current_time + SESSION_TTL_SECONDS
              /\ DOMAIN sessions[s].problem_data = IdsOf(created[s].problems)
              /\ \A q \in DOMAIN sessions[s].problem_data :
                     DOMAIN sessions[s].problem_data[q] = EntryFields
    /\ \A s \in DOMAIN sessions : s \in DOMAIN InitialSessions \/ s \in HandedOut
    /\ \A r \in Reqs :
          loc[r].kind = "storing" /\ ~(pc[r] = "done" /\ resp[r].kind = "ok") =>
              loc[r].session_id \notin DOMAIN sessions

(* a record of two entries was built and its put raised: nothing is stored *)
C27_BuiltButNotStored ==
    \E r \in Reqs :
        /\ IssueDone(r) /\ loc[r].kind = "storing"
        /\ Cardinality(DOMAIN loc[r].item_to_store.problem_data) = 2
        /\ resp[r] = ServiceError(500, "Unexpected error storing session data.")
        /\ loc[r].session_id \in HandedOut
        /\ loc[r].session_id \notin DOMAIN sessions

(* the frame of the handler in slot r *)
Frame(r) == <<pc[r], req[r], loc[r], resp[r], puts[r]>>

(* the item put for session s, from the problems and the time of its request *)
ItemAsCreated(s) == ItemToStore(s, created[s].problems, created[s].current_time)

(* the outcome of the request in slot r follows from its own input, its own *)
(* random choices and what it read from the two tables                      *)
OwnOutcome(r) ==
    /\ SubmitDone(r) /\ loc[r].outcome = "ok" =>
          IF loc[r].item = NoItem
          THEN resp[r] = NotFoundResponse
          ELSE /\ req[r].sessionId \in DOMAIN created
               /\ loc[r].item = ItemAsCreated(req[r].sessionId)
               /\ resp[r] = Ok([results |->
                                   validate_answers(req[r].answers,
                                                    SessionDataModel(loc[r].item)).value])
    /\ IssueOk(r) =>
          /\ \A i \in 1..Len(loc[r].raw_problems_from_db) :
                 loc[r].raw_problems_from_db[i] \in Range(pool)
          /\ loc[r].shuffled_problems \in
                 shuffle_options(ParseProblems(loc[r].raw_problems_from_db))
          /\ resp[r].body = FinalResponse(loc[r].shuffled_problems, req[r].timeLimit,
                                          loc[r].session_id)
          /\ sessions[loc[r].session_id] =
                 ItemToStore(loc[r].session_id, loc[r].shuffled_problems,
                             loc[r].current_time)

(* C28: with two requests in flight in any interleaving, no step writes the *)
(* question table, a step changes the frame of one request only, two        *)
(* requests never hold the same session id, and the outcome of each request *)
(* follows from its own input, its own random choices and what it read:     *)
(* grading a session gives the results of its own record as it was put.     *)
C28_RequestIsolation ==
    [][/\ pool' = pool
       /\ \A x, y \in Slots : x # y /\ Frame(x)' # Frame(x) => Frame(y)' = Frame(y)
       /\ \A x, y \in Slots :
             x # y /\ loc'[x].kind = "storing" /\ loc'[y].kind = "storing" =>
                 loc'[x].session_id # loc'[y].session_id
       /\ \A r \in Slots : OwnOutcome(r)']_vars

(* session 1 has been graded while the request that creates session 2      *)
(* awaits its put                                                           *)
C28_GradedBesideIssue ==
    \E x, y \in Slots :
        /\ DOMAIN pc = Slots
        /\ SubmitDone(x) /\ resp[x].kind = "ok"
        /\ req[x].sessionId = 1
        /\ Len(resp[x].body.results) = 1
        /\ pc[y] = "put" /\ loc[y].session_id = 2

(* the awaits inside the initialisation body *)
BodyStages == {"client_enter", "resource_enter", "quiz_table", "session_table"}

(* the handle a getter hands out once initialisation has completed *)
OwnHandle(g) == Handle(g, DynamoDbClient, QuizProblemsTable, SessionDataTable)

(* C29 as stated: with concurrent first calls of the three getters the     *)
(* initialisation body runs at most once, and every getter call that       *)
(* returns yields a non-None handle.                                       *)
C29_BodyRunsAtMostOnce ==
    /\ init_runs <= 1
    /\ \A t \in Tasks : call[t].result.kind = "return" => call[t].result.value # None

(* C29: with concurrent first calls of the three getters, the task inside  *)
(* the initialisation body is the one holding the lock, the body is        *)
(* entered only while the client handle is unset and no other task is in   *)
(* it (so it runs again only after an attempt that raised before setting   *)
(* the client), a handle once set is never changed, and every getter call  *)
(* that returns yields the non-None handle of its getter, which is the     *)
(* value of its global; a getter never returns None.                       *)
C29_InitializedUnderLock ==
    [][/\ init_runs' # init_runs =>
             /\ _aws_dynamodb_client = None
             /\ _client_init_lock = None
             /\ \A t \in Tasks : call[t].pc \notin BodyStages
       /\ \A t \in Tasks : call'[t].pc \in BodyStages => _client_init_lock' = t
       /\ _aws_dynamodb_client # None => _aws_dynamodb_client' = _aws_dynamodb_client
       /\ _aws_quiz_problems_table # None =>
             _aws_quiz_problems_table' = _aws_quiz_problems_table
       /\ _aws_session_data_table # None =>
             _aws_session_data_table' = _aws_session_data_table
       /\ \A t \in Tasks :
             call'[t].result.kind = "return" =>
                 /\ call'[t].result.value # None
                 /\ call'[t].result.value = OwnHandle(call'[t].getter)
                 /\ call'[t].result.value =
                        Handle(call'[t].getter, _aws_dynamodb_client',
                               _aws_quiz_problems_table', _aws_session_data_table')]_vars

(* the body has run twice: one call raised, a later call initialised and   *)
(* returned a table handle, and a third call returned the client           *)
C29_RetriedAndReturned ==
    /\ init_runs = 2
    /\ \E t1, t2, t3 \in Tasks :
         /\ call[t1].result = Raise(HTTPException(500, "Exception"))
         /\ call[t2].result = Return(QuizProblemsTable)
         /\ call[t3].result = Return(DynamoDbClient)

(* C30: whenever no task holds the initialisation lock, the three global   *)
(* handles are all unset or all set, also after an attempt that failed     *)
(* partway, so that the next getter call retries.                          *)
C30_AllOrNothing ==
    _client_init_lock = None =>
        \/ /\ _aws_dynamodb_client = None
           /\ _aws_quiz_problems_table = None
           /\ _aws_session_data_table = None
        \/ /\ _aws_dynamodb_client # None
           /\ _aws_quiz_problems_table # None
           /\ _aws_session_data_table # None

====
